---- MODULE Spec2Model ----
(***************************************************************************)
(* The Streamlit dashboard of app.py: the cached ingestion-and-join         *)
(* pipeline load_and_process_data, and the script that reruns on every     *)
(* widget interaction, filters the merged table and draws KPIs and charts. *)
(***************************************************************************)
EXTENDS Integers, Sequences, FiniteSets, TLC

(***************************************************************************)
(* Text of column names.  Column names are strings; Chars gives the        *)
(* characters of every name that occurs in the model, so that str.lower()  *)
(* and the substring test of the difficulty-score scan are computed on     *)
(* the text of the name.                                                    *)
(***************************************************************************)
Chars(name) ==
    CASE name = "company_id" ->
           <<"c", "o", "m", "p", "a", "n", "y", "_", "i", "d">>
      [] name = "flight_number" ->
           <<"f", "l", "i", "g", "h", "t", "_", "n", "u", "m", "b", "e", "r">>
      [] name = "scheduled_departure_date_local" ->
           <<"s", "c", "h", "e", "d", "u", "l", "e", "d", "_", "d", "e", "p", "a", "r", "t", "u", "r", "e", "_", "d", "a", "t", "e", "_", "l", "o", "c", "a", "l">>
      [] name = "scheduled_departure_datetime_local" ->
           <<"s", "c", "h", "e", "d", "u", "l", "e", "d", "_", "d", "e", "p", "a", "r", "t", "u", "r", "e", "_", "d", "a", "t", "e", "t", "i", "m", "e", "_", "l", "o", "c", "a", "l">>
      [] name = "actual_departure_datetime_local" ->
           <<"a", "c", "t", "u", "a", "l", "_", "d", "e", "p", "a", "r", "t", "u", "r", "e", "_", "d", "a", "t", "e", "t", "i", "m", "e", "_", "l", "o", "c", "a", "l">>
      [] name = "scheduled_arrival_datetime_local" ->
           <<"s", "c", "h", "e", "d", "u", "l", "e", "d", "_", "a", "r", "r", "i", "v", "a", "l", "_", "d", "a", "t", "e", "t", "i", "m", "e", "_", "l", "o", "c", "a", "l">>
      [] name = "actual_arrival_datetime_local" ->
           <<"a", "c", "t", "u", "a", "l", "_", "a", "r", "r", "i", "v", "a", "l", "_", "d", "a", "t", "e", "t", "i", "m", "e", "_", "l", "o", "c", "a", "l">>
      [] name = "carrier" ->
           <<"c", "a", "r", "r", "i", "e", "r">>
      [] name = "scheduled_departure_station_code" ->
           <<"s", "c", "h", "e", "d", "u", "l", "e", "d", "_", "d", "e", "p", "a", "r", "t", "u", "r", "e", "_", "s", "t", "a", "t", "i", "o", "n", "_", "c", "o", "d", "e">>
      [] name = "scheduled_arrival_station_code" ->
           <<"s", "c", "h", "e", "d", "u", "l", "e", "d", "_", "a", "r", "r", "i", "v", "a", "l", "_", "s", "t", "a", "t", "i", "o", "n", "_", "c", "o", "d", "e">>
      [] name = "actual_ground_time_minutes" ->
           <<"a", "c", "t", "u", "a", "l", "_", "g", "r", "o", "u", "n", "d", "_", "t", "i", "m", "e", "_", "m", "i", "n", "u", "t", "e", "s">>
      [] name = "departure_delay_mins" ->
           <<"d", "e", "p", "a", "r", "t", "u", "r", "e", "_", "d", "e", "l", "a", "y", "_", "m", "i", "n", "s">>
      [] name = "arrival_delay_mins" ->
           <<"a", "r", "r", "i", "v", "a", "l", "_", "d", "e", "l", "a", "y", "_", "m", "i", "n", "s">>
      [] name = "flight_difficulty_score" ->
           <<"f", "l", "i", "g", "h", "t", "_", "d", "i", "f", "f", "i", "c", "u", "l", "t", "y", "_", "s", "c", "o", "r", "e">>
      [] name = "score_v1" ->
           <<"s", "c", "o", "r", "e", "_", "v", "1">>
      [] name = "difficulty_raw" ->
           <<"d", "i", "f", "f", "i", "c", "u", "l", "t", "y", "_", "r", "a", "w">>
      [] name = "Difficulty_Level" ->
           <<"D", "i", "f", "f", "i", "c", "u", "l", "t", "y", "_", "L", "e", "v", "e", "l">>
      [] name = "record_locator" ->
           <<"r", "e", "c", "o", "r", "d", "_", "l", "o", "c", "a", "t", "o", "r">>
      [] name = "PNR_SCORE" ->
           <<"P", "N", "R", "_", "S", "C", "O", "R", "E">>
      [] name = "bag_tag_unique_number" ->
           <<"b", "a", "g", "_", "t", "a", "g", "_", "u", "n", "i", "q", "u", "e", "_", "n", "u", "m", "b", "e", "r">>
      [] name = "airport_iata_code" ->
           <<"a", "i", "r", "p", "o", "r", "t", "_", "i", "a", "t", "a", "_", "c", "o", "d", "e">>
      [] name = "special_service_request" ->
           <<"s", "p", "e", "c", "i", "a", "l", "_", "s", "e", "r", "v", "i", "c", "e", "_", "r", "e", "q", "u", "e", "s", "t">>
      [] name = "difficulty" ->
           <<"d", "i", "f", "f", "i", "c", "u", "l", "t", "y">>
      [] name = "score" ->
           <<"s", "c", "o", "r", "e">>
      [] name = "carrier_x" ->
           <<"c", "a", "r", "r", "i", "e", "r", "_", "x">>
      [] name = "carrier_y" ->
           <<"c", "a", "r", "r", "i", "e", "r", "_", "y">>

\* str.lower() on one character, then on a text.
UpperCase ==
    <<"A", "B", "C", "D", "E", "F", "G", "H", "I", "J", "K", "L", "M", "N", "O", "P", "Q", "R", "S", "T", "U", "V", "W", "X", "Y", "Z">>
LowerCase ==
    <<"a", "b", "c", "d", "e", "f", "g", "h", "i", "j", "k", "l", "m", "n", "o", "p", "q", "r", "s", "t", "u", "v", "w", "x", "y", "z">>
UpperChars == {UpperCase[k] : k \in 1..Len(UpperCase)}
LowerChar(ch) ==
    IF ch \in UpperChars
    THEN LowerCase[CHOOSE k \in 1..Len(UpperCase) : UpperCase[k] = ch]
    ELSE ch
lower(text) ==
    [i \in 1..Len(text) |-> LowerChar(text[i])] \o <<>>

\* Python's `sub in text` on strings.
Contains(sub, text) ==
    \E i \in 0..(Len(text) - Len(sub)) : SubSeq(text, i + 1, i + Len(sub)) = sub

(***************************************************************************)
(* Bounds of the model.                                                    *)
(***************************************************************************)
\* Stands for the 10000-row threshold and sample size of lines 32-41,
\* scaled down so that a table of the model can exceed it.
SampleLimit == 2
\* Rows of a flight table whose timestamps are varied.
MaxDelayRows == 2
\* Rows of each table in the inputs that vary the join keys.
MaxJoinRows == 2

(***************************************************************************)
(* Cells.  A cell of a DataFrame is NaN, a text, a number, a text that     *)
(* reads as a timestamp (local minute and UTC offset in minutes), or,      *)
(* after pd.to_datetime, a UTC timestamp or NaT.                           *)
(***************************************************************************)
NaN == [tag |-> "nan", s |-> "", n |-> 0, off |-> 0]
NaT == [tag |-> "nat", s |-> "", n |-> 0, off |-> 0]
Text(t) == [tag |-> "str", s |-> t, n |-> 0, off |-> 0]
Num(k) == [tag |-> "num", s |-> "", n |-> k, off |-> 0]
TsText(local, offset) == [tag |-> "tstext", s |-> "", n |-> local, off |-> offset]
Timestamp(minute) == [tag |-> "datetime", s |-> "", n |-> minute, off |-> 0]

isna(c) == c.tag \in {"nan", "nat"}

(***************************************************************************)
(* DataFrames: a list of column names and rows aligned with it.  None is   *)
(* Python's None in the place of a DataFrame.                              *)
(***************************************************************************)
DataFrame(cols, rws) == [none |-> FALSE, columns |-> cols, rows |-> rws]
EmptyDataFrame == DataFrame(<<>>, <<>>)
None == [none |-> TRUE, columns |-> <<>>, rows |-> <<>>]

\* A sequence given as a function on 1..n, as the list of its values.
AsList(f) == f \o <<>>

HasColumn(df, name) == \E i \in 1..Len(df.columns) : df.columns[i] = name
ColumnIndex(df, name) ==
    CHOOSE i \in 1..Len(df.columns) :
        /\ df.columns[i] = name
        /\ \A j \in 1..(i - 1) : df.columns[j] # name
\* df[name] of one row.
At(df, row, name) == row[ColumnIndex(df, name)]
\* df[name] = values: replaces the column, or appends it when it is new.
SetColumn(df, name, values) ==
    IF HasColumn(df, name)
    THEN [df EXCEPT !.rows = AsList([i \in 1..Len(df.rows) |->
             [df.rows[i] EXCEPT ![ColumnIndex(df, name)] = values[i]]])]
    ELSE [df EXCEPT !.columns = Append(df.columns, name),
                    !.rows = AsList([i \in 1..Len(df.rows) |-> Append(df.rows[i], values[i])])]

RECURSIVE Flatten(_)
Flatten(seqs) ==
    IF seqs = <<>> THEN <<>> ELSE Head(seqs) \o Flatten(Tail(seqs))

\* The positions of seq that satisfy keep, in order.
RECURSIVE Positions(_, _)
Positions(flags, from) ==
    IF from > Len(flags) THEN <<>>
    ELSE (IF flags[from] THEN <<from>> ELSE <<>>) \o Positions(flags, from + 1)

(***************************************************************************)
(* Exceptions of a step: exc is "" when the step returned.                 *)
(***************************************************************************)
Ok(df) == [exc |-> "", file |-> "", df |-> df]
Raise(e, f) == [exc |-> e, file |-> f, df |-> None]
\* The classes raised inside the pipeline; all derive from Exception.
ExceptionSubclasses == {"FileNotFoundError", "ParserError", "KeyError"}

(***************************************************************************)
(* pd.read_csv: the file is absent, does not parse, or yields its table.   *)
(***************************************************************************)
read_csv(files, name) ==
    IF files[name].status = "missing" THEN Raise("FileNotFoundError", name)
    ELSE IF files[name].status = "malformed" THEN Raise("ParserError", name)
    ELSE Ok(files[name].table)

(***************************************************************************)
(* df.sample(n, random_state=42).reset_index(drop=True) when the table is  *)
(* longer than the limit.  The seeded generator's choice of n distinct     *)
(* rows is not reproduced: draw is any sequence of n distinct positions.   *)
(***************************************************************************)
SampleDraws(len) ==
    IF len > SampleLimit
    THEN {d \in [1..SampleLimit -> 1..len] :
             \A i, j \in 1..SampleLimit : d[i] = d[j] => i = j}
    ELSE {<<>>}
Downsample(df, draw) ==
    IF Len(df.rows) > SampleLimit
    THEN [df EXCEPT !.rows = AsList([k \in 1..SampleLimit |-> df.rows[draw[k]]])]
    ELSE df

(***************************************************************************)
(* pd.merge(left, right, on=keys, how="left")                              *)
(***************************************************************************)
JoinKeys == <<"company_id", "flight_number", "scheduled_departure_date_local">>
IsJoinKey(name) == \E k \in 1..Len(JoinKeys) : JoinKeys[k] = name
KeyOf(df, row) == AsList([k \in 1..Len(JoinKeys) |-> At(df, row, JoinKeys[k])])
\* Positions of the right table's columns that are not join keys.
NonKeyPositions(df) ==
    Positions(AsList([i \in 1..Len(df.columns) |-> ~IsJoinKey(df.columns[i])]), 1)
\* how="inner" in the place of how="left": an unmatched left row is dropped.
InnerJoinRows(lrow, payloads, width) ==
    AsList([m \in 1..Len(payloads) |-> lrow \o payloads[m]])
\* how="left": the rows one left row yields, one per matching right row,
\* or a single row padded with NaN when no right row matches.
LeftJoinRows(lrow, payloads, width) ==
    IF payloads = <<>>
    THEN << lrow \o AsList([p \in 1..width |-> NaN]) >>
    ELSE AsList([m \in 1..Len(payloads) |-> lrow \o payloads[m]])
merge(left, right) ==
    IF \E k \in 1..Len(JoinKeys) :
           ~HasColumn(left, JoinKeys[k]) \/ ~HasColumn(right, JoinKeys[k])
    THEN Raise("KeyError", "")
    ELSE
    LET rpos == NonKeyPositions(right)
        overlaps(name) == ~IsJoinKey(name) /\ HasColumn(left, name) /\ HasColumn(right, name)
        lcols == AsList([i \in 1..Len(left.columns) |->
                    IF overlaps(left.columns[i]) THEN left.columns[i] \o "_x"
                    ELSE left.columns[i]])
        rcols == AsList([p \in 1..Len(rpos) |->
                    IF overlaps(right.columns[rpos[p]]) THEN right.columns[rpos[p]] \o "_y"
                    ELSE right.columns[rpos[p]]])
        payload(rrow) == AsList([p \in 1..Len(rpos) |-> rrow[rpos[p]]])
        matches(lrow) ==
            Positions(AsList([j \in 1..Len(right.rows) |->
                          KeyOf(right, right.rows[j]) = KeyOf(left, lrow)]), 1)
        rowsFor(lrow) ==
            LeftJoinRows(lrow,
                AsList([m \in 1..Len(matches(lrow)) |-> payload(right.rows[matches(lrow)[m]])]),
                Len(rpos))
    IN  Ok(DataFrame(lcols \o rcols,
                     Flatten(AsList([i \in 1..Len(left.rows) |-> rowsFor(left.rows[i])]))))

\* df.drop_duplicates(): the first of each group of equal rows is kept.
drop_duplicates(df) ==
    LET keep == Positions(AsList([i \in 1..Len(df.rows) |->
                              \A j \in 1..(i - 1) : df.rows[j] # df.rows[i]]), 1)
    IN  [df EXCEPT !.rows = AsList([k \in 1..Len(keep) |-> df.rows[keep[k]]])]

(***************************************************************************)
(* pd.to_datetime(column, errors="coerce", utc=True) on one cell: a text   *)
(* that reads as a timestamp becomes the UTC instant it denotes, anything  *)
(* else (missing, or a text that does not parse) becomes NaT.              *)
(***************************************************************************)
to_datetime(c) ==
    CASE c.tag = "tstext" -> Timestamp(c.n - c.off)
      [] c.tag = "datetime" -> c
      [] c.tag \in {"nan", "nat", "str"} -> NaT

datetime_cols ==
    << "scheduled_departure_datetime_local",
       "actual_departure_datetime_local",
       "scheduled_arrival_datetime_local",
       "actual_arrival_datetime_local" >>

\* Lines 57-59: each of the four columns that is present is parsed.
RECURSIVE NormalizeFrom(_, _)
NormalizeFrom(df, k) ==
    IF k > Len(datetime_cols) THEN df
    ELSE IF HasColumn(df, datetime_cols[k])
    THEN NormalizeFrom(
             SetColumn(df, datetime_cols[k],
                 AsList([i \in 1..Len(df.rows) |-> to_datetime(At(df, df.rows[i], datetime_cols[k]))])),
             k + 1)
    ELSE NormalizeFrom(df, k + 1)
NormalizeTimestamps(df) == NormalizeFrom(df, 1)

\* (actual - scheduled).dt.total_seconds() / 60 on one row: NaN when an
\* operand is NaT.  Timestamps of the model are whole minutes.
SecondsPerMinute == 60
\* total_seconds() without the division by 60.
total_seconds_only(actual, scheduled) ==
    IF isna(actual) \/ isna(scheduled) THEN NaN
    ELSE Num((actual.n - scheduled.n) * SecondsPerMinute)
total_minutes(actual, scheduled) ==
    IF isna(actual) \/ isna(scheduled) THEN NaN
    ELSE Num(((actual.n - scheduled.n) * SecondsPerMinute) \div SecondsPerMinute)
fillna(c, k) == IF isna(c) THEN Num(k) ELSE c

\* Lines 61-64 and 65-68: one derived column; KeyError when an operand
\* column is absent.
DelayColumn(df, name, actual, scheduled) ==
    IF ~HasColumn(df, actual) \/ ~HasColumn(df, scheduled)
    THEN Raise("KeyError", "")
    ELSE Ok(SetColumn(df, name,
             AsList([i \in 1..Len(df.rows) |->
                 fillna(total_minutes(At(df, df.rows[i], actual),
                                      At(df, df.rows[i], scheduled)), 0)])))
DeriveDelays(df) ==
    LET dep == DelayColumn(df, "departure_delay_mins",
                           "actual_departure_datetime_local",
                           "scheduled_departure_datetime_local")
    IN  IF dep.exc # "" THEN dep
        ELSE DelayColumn(dep.df, "arrival_delay_mins",
                         "actual_arrival_datetime_local",
                         "scheduled_arrival_datetime_local")

(***************************************************************************)
(* Lines 70-76: the difficulty-score column.                               *)
(***************************************************************************)
IsDifficultyName(name) ==
    Contains(Chars("difficulty"), lower(Chars(name)))
    \/ Contains(Chars("score"), lower(Chars(name)))
\* Line 70: the matching column names, in column order.
difficulty_cols(df) ==
    LET pos == Positions(AsList([i \in 1..Len(df.columns) |-> IsDifficultyName(df.columns[i])]), 1)
    IN  AsList([k \in 1..Len(pos) |-> df.columns[pos[k]]])
\* df.rename(columns={old: new}): every column labelled old is relabelled.
rename(df, old, new) ==
    [df EXCEPT !.columns = AsList([i \in 1..Len(df.columns) |->
                               IF df.columns[i] = old THEN new ELSE df.columns[i]])]
\* np.random.randint(1, 100, n): n integers v with RandLow <= v < RandHigh.
RandLow == 1
RandHigh == 100
RandInts == RandLow..(RandHigh - 1)
randint(n) == [1..n -> RandInts]

\* A message shown by st.info, st.warning or st.error; about is the column
\* or the file the text names.
Message(level, text, about) ==
    [level |-> level, text |-> text, about |-> about]
MsgDetected(name) ==
    Message("info", "Detected difficulty column renamed to flight_difficulty_score", name)
MsgSynthetic ==
    Message("warning", "No difficulty column detected. Using random demo values.", "")
MsgMissingFile(e) ==
    Message("error", "Error: Missing file. Please ensure all CSV files are uploaded.", e.file)
MsgUnexpected(e) ==
    Message("error", "Unexpected error loading data", e.exc)

\* The last match renamed in the place of the first.
ResolveLastMatch(df, cols, draw) ==
    IF cols # <<>>
    THEN [df |-> rename(df, cols[Len(cols)], "flight_difficulty_score"),
          messages |-> << MsgDetected(cols[Len(cols)]) >>]
    ELSE [df |-> SetColumn(df, "flight_difficulty_score",
                     AsList([i \in 1..Len(df.rows) |-> Num(draw[i])])),
          messages |-> << MsgSynthetic >>]
\* Lines 71-76, given the list cols of line 70; draw is the outcome of
\* np.random.randint, used on the else branch only.
ResolveDifficulty(df, cols, draw) ==
    IF cols # <<>>
    THEN [df |-> rename(df, cols[1], "flight_difficulty_score"),
          messages |-> << MsgDetected(cols[1]) >>]
    ELSE [df |-> SetColumn(df, "flight_difficulty_score",
                     AsList([i \in 1..Len(df.rows) |-> Num(draw[i])])),
          messages |-> << MsgSynthetic >>]

(***************************************************************************)
(* load_and_process_data, lines 29-85.                                     *)
(***************************************************************************)
FileNames ==
    << "clean_flight_data.csv", "clean_pnr.csv", "clean_bag.csv",
       "clean_remark.csv", "clean_airport.csv" >>

\* What the function hands back: the six tables, the st.info / st.warning /
\* st.error messages it displayed, and the exception that left it ("" when
\* it returned).
Returned(f, p, b, r, a, m, msgs) ==
    [flight_df |-> f, pnr_df |-> p, bag_df |-> b, remark_df |-> r,
     airport_df |-> a, merged_df |-> m, messages |-> msgs, escaped |-> ""]
Escaped(e) ==
    [flight_df |-> None, pnr_df |-> None, bag_df |-> None, remark_df |-> None,
     airport_df |-> None, merged_df |-> None, messages |-> <<>>, escaped |-> e]

\* Only the first handler: any other exception leaves the function.
HandleMissingFileOnly(e) ==
    IF e.exc = "FileNotFoundError"
    THEN Returned(None, None, None, None, None, EmptyDataFrame, << MsgMissingFile(e) >>)
    ELSE Escaped(e.exc)
\* Lines 80-85: the two handlers.
Handle(e) ==
    IF e.exc = "FileNotFoundError"
    THEN Returned(None, None, None, None, None, EmptyDataFrame, << MsgMissingFile(e) >>)
    ELSE IF e.exc \in ExceptionSubclasses
    THEN Returned(None, None, None, None, None, EmptyDataFrame, << MsgUnexpected(e) >>)
    ELSE Escaped(e.exc)

\* Lines 31-44: the five reads, in order, each of the first three followed
\* by its downsampling.  The first read that raises ends the loading.
LoadSources(fs, draw) ==
    LET f == read_csv(fs, FileNames[1])
        p == read_csv(fs, FileNames[2])
        b == read_csv(fs, FileNames[3])
        r == read_csv(fs, FileNames[4])
        a == read_csv(fs, FileNames[5])
        failed == IF f.exc # "" THEN f ELSE IF p.exc # "" THEN p
                  ELSE IF b.exc # "" THEN b ELSE IF r.exc # "" THEN r ELSE a
    IN  [exc |-> failed.exc, file |-> failed.file,
         flight_df |-> Downsample(f.df, draw.flight),
         pnr_df |-> Downsample(p.df, draw.pnr),
         bag_df |-> Downsample(b.df, draw.bag),
         remark_df |-> r.df, airport_df |-> a.df]

\* Lines 46-49: the two left joins and the removal of duplicates.
MergeAndDeduplicate(flight_df, pnr_df, bag_df) ==
    LET first == merge(flight_df, pnr_df)
    IN  IF first.exc # "" THEN first
        ELSE LET second == merge(first.df, bag_df)
             IN  IF second.exc # "" THEN second
                 ELSE Ok(drop_duplicates(second.df))

\* Lines 46-68: the merged table before the difficulty-score step.
MergedWithDelays(src) ==
    LET m == MergeAndDeduplicate(src.flight_df, src.pnr_df, src.bag_df)
    IN  IF m.exc # "" THEN m ELSE DeriveDelays(NormalizeTimestamps(m.df))

\* Lines 31-70: everything before the difficulty-score branch, for one
\* outcome of the three samplings.
RunToScan(fs, draw) ==
    LET src == LoadSources(fs, draw)
    IN  IF src.exc # ""
        THEN [exc |-> src.exc, file |-> src.file, src |-> src, df |-> None,
              difficulty_cols |-> <<>>]
        ELSE LET m == MergedWithDelays(src)
             IN  [exc |-> m.exc, file |-> m.file, src |-> src, df |-> m.df,
                  difficulty_cols |-> IF m.exc # "" THEN <<>> ELSE difficulty_cols(m.df)]

\* Lines 71-85: the difficulty-score branch and the return, or the handler
\* of the exception raised before it.
Finish(body, scores) ==
    IF body.exc # "" THEN Handle(body)
    ELSE LET d == ResolveDifficulty(body.df, body.difficulty_cols, scores)
         IN  Returned(body.src.flight_df, body.src.pnr_df, body.src.bag_df,
                      body.src.remark_df, body.src.airport_df, d.df, d.messages)

\* The outcomes np.random.randint can have at line 75 (none when the line
\* is not reached).
ScoreDraws(body) ==
    IF body.exc # "" \/ body.difficulty_cols # <<>>
    THEN {<<>>}
    ELSE randint(Len(body.df.rows))

TableLen(fs, name) ==
    IF fs[name].status = "ok" THEN Len(fs[name].table.rows) ELSE 0

\* The runs of lines 31-70 on the files fs: one for every outcome of the
\* three samplings.
RunsToScan(fs) ==
    { RunToScan(fs, [flight |-> a, pnr |-> b, bag |-> c]) :
        <<a, b, c>> \in SampleDraws(TableLen(fs, FileNames[1]))
                        \X SampleDraws(TableLen(fs, FileNames[2]))
                        \X SampleDraws(TableLen(fs, FileNames[3])) }

(***************************************************************************)
(* Input files.  A file is absent, malformed, or holds a table.            *)
(***************************************************************************)
\* The text of a calendar day, as "scheduled_departure_date_local" holds it.
DateText(day) == [tag |-> "datetext", s |-> "", n |-> day, off |-> 0]

FlightColumns ==
    << "company_id", "flight_number", "scheduled_departure_date_local",
       "scheduled_departure_datetime_local", "actual_departure_datetime_local",
       "scheduled_arrival_datetime_local", "actual_arrival_datetime_local",
       "carrier", "scheduled_departure_station_code",
       "scheduled_arrival_station_code", "actual_ground_time_minutes" >>
FlightRow(fn, day, car, sd, ad, sa, aa) ==
    << Text("UA"), Num(fn), DateText(day), sd, ad, sa, aa,
       Text(car), Text("ORD"), Text("DEN"), Num(45) >>
PnrColumns ==
    << "company_id", "flight_number", "scheduled_departure_date_local", "record_locator" >>
PnrRow(fn, day, loc) == << Text("UA"), Num(fn), DateText(day), Text(loc) >>
BagColumns ==
    << "company_id", "flight_number", "scheduled_departure_date_local", "bag_tag_unique_number" >>
BagRow(fn, day, tag) == << Text("UA"), Num(fn), DateText(day), Text(tag) >>
RemarkTable ==
    DataFrame(<< "record_locator", "special_service_request" >>,
              << << Text("A"), Text("WCHR") >> >>)
AirportTable ==
    DataFrame(<< "airport_iata_code" >>, << << Text("ORD") >>, << Text("DEN") >> >>)

\* A table with extra columns appended to every row.
WithColumns(df, names, cells) ==
    [df EXCEPT !.columns = df.columns \o names,
               !.rows = AsList([i \in 1..Len(df.rows) |-> df.rows[i] \o cells])]
\* A table without one of its columns.
WithoutColumn(df, name) ==
    LET pos == Positions(AsList([i \in 1..Len(df.columns) |-> df.columns[i] # name]), 1)
    IN  DataFrame(AsList([k \in 1..Len(pos) |-> df.columns[pos[k]]]),
                  AsList([i \in 1..Len(df.rows) |-> AsList([k \in 1..Len(pos) |-> df.rows[i][pos[k]]])]))
\* A flight table that carries a difficulty column.
Scored(df) == WithColumns(df, << "difficulty_raw" >>, << Num(5) >>)

FileSet == {FileNames[i] : i \in 1..Len(FileNames)}
Statuses == {"ok", "missing", "malformed"}
AllOk == [name \in FileSet |-> "ok"]
Files(status, flight, pnr, bag) ==
    [name \in FileSet |->
        [status |-> status[name],
         table |-> CASE name = FileNames[1] -> flight
                     [] name = FileNames[2] -> pnr
                     [] name = FileNames[3] -> bag
                     [] name = FileNames[4] -> RemarkTable
                     [] name = FileNames[5] -> AirportTable]]

\* Sequences over a set of rows, of the given lengths.
SeqsOf(rowset, lens) == UNION {[1..n -> rowset] : n \in lens}

\* Timestamp texts of the inputs: departure scheduled for minute 100.
ScheduledDepartureCells == {TsText(100, 0), Text("garbage")}
ActualDepartureCells ==
    {NaN, Text("n/a"), TsText(123, 0), TsText(183, 60), TsText(95, 0)}
ScheduledArrivalCells == {TsText(200, 0)}
ActualArrivalCells == {NaN, TsText(190, 0)}

\* Inputs that vary the timestamps of the flights.
DelayInputs ==
    { Files(AllOk, Scored(DataFrame(FlightColumns, rws)),
            DataFrame(PnrColumns, << PnrRow(1, 1, "A") >>),
            DataFrame(BagColumns, <<>>)) :
        rws \in SeqsOf({FlightRow(1, 1, "AA", sd, ad, sa, aa) :
                          sd \in ScheduledDepartureCells, ad \in ActualDepartureCells,
                          sa \in ScheduledArrivalCells, aa \in ActualArrivalCells},
                       1..MaxDelayRows) }

\* Inputs that vary the keys and the number of rows of the three joined tables.
JoinFlightRows ==
    {FlightRow(fn, 1, "AA", TsText(100, 0), ad, TsText(200, 0), TsText(190, 0)) :
        <<fn, ad>> \in {<<1, NaN>>, <<1, TsText(123, 0)>>, <<2, TsText(123, 0)>>}}
JoinPnrRows == {PnrRow(1, 1, "A"), PnrRow(1, 1, "B"), PnrRow(2, 1, "A")}
JoinBagRows == {BagRow(1, 1, "T1"), BagRow(2, 1, "T1")}
JoinInputs ==
    { Files(AllOk, Scored(DataFrame(FlightColumns, f)),
            DataFrame(PnrColumns, p), DataFrame(BagColumns, b)) :
        f \in SeqsOf(JoinFlightRows, 0..MaxJoinRows),
        p \in SeqsOf(JoinPnrRows, 0..MaxJoinRows),
        b \in SeqsOf(JoinBagRows, 0..1) }

\* Inputs with a table longer than the sampling limit.
LongPnr == AsList([i \in 1..(SampleLimit + 1) |-> PnrRow(1 + (i % 2), 1, "A")])
LongBag == AsList([i \in 1..(SampleLimit + 1) |-> BagRow(1 + (i % 2), 1, "T1")])
SampleInputs ==
    { Files(AllOk, Scored(DataFrame(FlightColumns, f)),
            DataFrame(PnrColumns, pb[1]), DataFrame(BagColumns, pb[2])) :
        f \in SeqsOf({r \in JoinFlightRows : r[5] # NaN}, {1, SampleLimit + 1}),
        pb \in { << <<PnrRow(1, 1, "A")>>, <<>> >>,
                 << LongPnr, <<BagRow(1, 1, "T1")>> >>,
                 << <<PnrRow(2, 1, "B")>>, LongBag >> } }

\* Inputs in which files are absent or malformed.
OneFlight ==
    DataFrame(FlightColumns,
              << FlightRow(1, 1, "AA", TsText(100, 0), TsText(123, 0),
                           TsText(200, 0), TsText(190, 0)) >>)
TwoFlights ==
    DataFrame(FlightColumns,
              << FlightRow(1, 1, "AA", TsText(100, 0), TsText(123, 0),
                           TsText(200, 0), TsText(190, 0)),
                 FlightRow(2, 1, "DL", TsText(100, 0), NaN,
                           TsText(200, 0), TsText(190, 0)) >>)
OnePnr == DataFrame(PnrColumns, << PnrRow(1, 1, "A") >>)
OneBag == DataFrame(BagColumns, << BagRow(1, 1, "T1") >>)
FaultInputs ==
    { Files(st, Scored(OneFlight), OnePnr, OneBag) : st \in [FileSet -> Statuses] }

\* Inputs that vary the columns of the tables.
FlightSchemas ==
    { OneFlight, TwoFlights,
      WithColumns(TwoFlights, << "score_v1", "difficulty_raw" >>, << Num(7), Num(5) >>),
      WithColumns(TwoFlights, << "difficulty_raw", "score_v1" >>, << Num(5), Num(7) >>),
      WithColumns(OneFlight, << "Difficulty_Level" >>, << Num(3) >>),
      WithColumns(OneFlight, << "score_v1", "flight_difficulty_score" >>, << Num(7), Num(9) >>),
      WithoutColumn(OneFlight, "flight_number"),
      WithoutColumn(Scored(OneFlight), "actual_arrival_datetime_local"),
      WithoutColumn(Scored(OneFlight), "scheduled_departure_datetime_local") }
PnrSchemas ==
    { OnePnr,
      WithColumns(OnePnr, << "PNR_SCORE" >>, << Num(1) >>),
      WithColumns(OnePnr, << "carrier" >>, << Text("AA") >>),
      WithoutColumn(OnePnr, "company_id") }
SchemaInputs ==
    { Files(AllOk, f, p, OneBag) : f \in FlightSchemas, p \in PnrSchemas }

PipelineInputs ==
    DelayInputs \cup JoinInputs \cup SampleInputs \cup FaultInputs \cup SchemaInputs


(***************************************************************************)
(* The files a dashboard session runs on: two data sets with different     *)
(* carriers and days, and one in which the flight file is absent.          *)
(***************************************************************************)
OnTime(fn, day, car) ==
    FlightRow(fn, day, car, TsText(100, 0), TsText(123, 0), TsText(200, 0), TsText(190, 0))
SessionInputs ==
    { Files(AllOk, Scored(DataFrame(FlightColumns, << OnTime(1, 1, "AA"), OnTime(2, 1, "UA") >>)),
            OnePnr, OneBag),
      Files(AllOk, Scored(DataFrame(FlightColumns, << OnTime(1, 1, "DL"), OnTime(2, 3, "DL") >>)),
            OnePnr, OneBag),
      Files([AllOk EXCEPT ![FileNames[1]] = "missing"], Scored(OneFlight), OnePnr, OneBag) }

(***************************************************************************)
(* State.                                                                  *)
(***************************************************************************)
VARIABLES
    files,          \* the five CSV files on disk
    cache,          \* st.cache_data's entry for load_and_process_data
    loaded,         \* what the latest call of load_and_process_data delivered
    session,        \* st.session_state.filter_state
    page,           \* what the latest run of the script did and displayed
    rerun_pending   \* st.rerun() was called and the new run has not started

vars == << files, cache, loaded, session, page, rerun_pending >>

NoResult == Escaped("")
NoCache == [valid |-> FALSE, value |-> NoResult]
NotLoaded == [called |-> FALSE, value |-> NoResult]
\* st.session_state of a new session: filter_state is not in it.
NewSession == [present |-> FALSE, carrier |-> "", date_range |-> <<>>]
NoPage ==
    [status |-> "none", exception |-> "", df |-> None, selected_carrier |-> "",
     date_range |-> <<>>, shown |-> {}, entered |-> {}]

(***************************************************************************)
(* The script below line 88, as one run from top to bottom.                *)
(***************************************************************************)
\* sorted() on the carrier codes that occur in the inputs.
CarrierOrder == << "AA", "DL", "UA" >>
\* Line 99: "All", then the distinct non-null carriers in sorted order.
CarrierOptions(df) ==
    LET pos == Positions(AsList([k \in 1..Len(CarrierOrder) |->
                   \E i \in 1..Len(df.rows) :
                       At(df, df.rows[i], "carrier") = Text(CarrierOrder[k])]), 1)
    IN  << "All" >> \o AsList([k \in 1..Len(pos) |-> CarrierOrder[pos[k]]])
InList(x, list) == \E k \in 1..Len(list) : list[k] = x

\* pd.to_datetime(cell).dt.date of a day's text.
to_date(c) == CASE c.tag = "datetext" -> c.n
DayOf(df, row) == to_date(At(df, row, "scheduled_departure_date_local"))
Days(df) == {DayOf(df, df.rows[i]) : i \in 1..Len(df.rows)}
MinDay(df) == CHOOSE d \in Days(df) : \A e \in Days(df) : d <= e
MaxDay(df) == CHOOSE d \in Days(df) : \A e \in Days(df) : d >= e

\* df[mask]
Filter(df, mask) ==
    LET pos == Positions(mask, 1)
    IN  [df EXCEPT !.rows = AsList([k \in 1..Len(pos) |-> df.rows[pos[k]]])]

\* Lines 95-96.
InitFilterState(s) ==
    IF s.present THEN s ELSE [present |-> TRUE, carrier |-> "All", date_range |-> <<>>]

\* Lines 98-104.  pick is the carrier the user chose on the page, "" when
\* the user left the selectbox alone; the selectbox then returns the option
\* at its index, the stored carrier.
CarrierFilter(st, pick) ==
    IF st.df.none \/ ~HasColumn(st.df, "carrier") THEN st
    ELSE IF ~InList(st.fs.carrier, CarrierOptions(st.df))
    THEN [st EXCEPT !.exception = "ValueError", !.entered = @ \cup {"carrier"}]
    ELSE
    LET selected_carrier == IF pick = "" THEN st.fs.carrier ELSE pick
        seen == [st EXCEPT !.selected_carrier = selected_carrier,
                           !.entered = @ \cup {"carrier"}]
    IN  IF selected_carrier # st.fs.carrier
        THEN [seen EXCEPT
                 !.fs.carrier = selected_carrier,
                 !.df = IF selected_carrier # "All"
                        THEN Filter(st.df, AsList([i \in 1..Len(st.df.rows) |->
                                 At(st.df, st.df.rows[i], "carrier") = Text(selected_carrier)]))
                        ELSE @]
        ELSE seen

\* Lines 106-114.  pick is the tuple the user chose in the date input,
\* <<>> when the user left it alone; the input then returns its value
\* argument.  st.date_input raises when that argument lies outside
\* [min_value, max_value].
DateFilter(st, pick) ==
    IF st.exception # "" \/ st.df.none
       \/ ~HasColumn(st.df, "scheduled_departure_date_local")
    THEN st
    ELSE IF st.df.rows = <<>>
    THEN [st EXCEPT !.exception = "StreamlitAPIException", !.entered = @ \cup {"dates"}]
    ELSE
    LET min_date == MinDay(st.df)
        max_date == MaxDay(st.df)
        value == IF st.fs.date_range = <<>> THEN << min_date, max_date >>
                 ELSE st.fs.date_range
        date_range == IF pick = <<>> THEN value ELSE pick
        seen == [st EXCEPT !.date_range = date_range, !.entered = @ \cup {"dates"}]
    IN  IF value[1] < min_date \/ value[Len(value)] > max_date
        THEN [st EXCEPT !.exception = "StreamlitAPIException", !.entered = @ \cup {"dates"}]
        ELSE IF Len(date_range) = 2 /\ date_range # st.fs.date_range
        THEN [seen EXCEPT
                 !.fs.date_range = date_range,
                 !.df = Filter(st.df, AsList([i \in 1..Len(st.df.rows) |->
                            /\ DayOf(st.df, st.df.rows[i]) >= date_range[1]
                            /\ DayOf(st.df, st.df.rows[i]) <= date_range[2]]))]
        ELSE seen

\* Lines 116-119.
TotalFlights(st) ==
    IF st.exception # "" THEN st
    ELSE IF ~st.df.none THEN [st EXCEPT !.shown = @ \cup {"Total Flights"}]
    ELSE [st EXCEPT !.shown = @ \cup {"Total Flights: N/A"}]

\* Lines 121-123: the button was clicked; the run ends in st.rerun().
ClearButton(st, clicked) ==
    IF st.exception = "" /\ clicked THEN [st EXCEPT !.rerun = TRUE] ELSE st

KpiColumns == {"departure_delay_mins", "arrival_delay_mins", "actual_ground_time_minutes"}
ChartColumns ==
    {"departure_delay_mins", "arrival_delay_mins", "carrier", "actual_ground_time_minutes",
     "scheduled_departure_station_code", "scheduled_arrival_station_code",
     "flight_number", "flight_difficulty_score"}

\* Lines 128-141: df[column] raises KeyError when the column is absent.
Kpis(st) ==
    IF st.exception # "" \/ st.rerun THEN st
    ELSE IF ~st.df.none
    THEN [st EXCEPT !.entered = @ \cup {"kpis"},
                    !.exception = IF \A c \in KpiColumns : HasColumn(st.df, c)
                                  THEN "" ELSE "KeyError"]
    ELSE [st EXCEPT !.shown = @ \cup {"No data available to display KPIs."}]

\* Lines 148-231: plotly raises ValueError when a column it is given is absent.
Charts(st) ==
    IF st.exception # "" \/ st.rerun THEN st
    ELSE IF ~st.df.none
    THEN [st EXCEPT !.entered = @ \cup {"charts"},
                    !.exception = IF \A c \in ChartColumns : HasColumn(st.df, c)
                                  THEN "" ELSE "ValueError"]
    ELSE [st EXCEPT !.shown = @ \cup {"No data available to display visualizations."}]

\* One run of the script on what line 88 delivered.
Script(result, sess, carrier_pick, date_pick, clicked) ==
    IF result.escaped # ""
    THEN [fs |-> sess, df |-> None, exception |-> result.escaped, rerun |-> FALSE,
          selected_carrier |-> "", date_range |-> <<>>, shown |-> {}, entered |-> {}]
    ELSE Charts(Kpis(ClearButton(TotalFlights(DateFilter(CarrierFilter(
             [fs |-> InitFilterState(sess), df |-> result.merged_df, exception |-> "",
              rerun |-> FALSE, selected_carrier |-> "", date_range |-> <<>>,
              shown |-> {result.messages[k].text : k \in 1..Len(result.messages)},
              entered |-> {}],
             carrier_pick), date_pick)), clicked)))

PageOf(st) ==
    [status |-> IF st.exception # "" THEN "exception"
                ELSE IF st.rerun THEN "rerun" ELSE "done",
     exception |-> st.exception, df |-> st.df,
     selected_carrier |-> st.selected_carrier, date_range |-> st.date_range,
     shown |-> st.shown, entered |-> st.entered]

(***************************************************************************)
(* Actions.                                                                *)
(***************************************************************************)
\* A run of the whole script: line 88 takes the cached value or calls the
\* function, the rest of the script runs on it.
Run(carrier_pick, date_pick, clicked) ==
    \E body \in IF cache.valid THEN {NoResult} ELSE RunsToScan(files) :
    \E d \in IF cache.valid THEN {<<>>} ELSE ScoreDraws(body) :
        LET result == IF cache.valid THEN cache.value ELSE Finish(body, d)
            st == Script(result, session, carrier_pick, date_pick, clicked)
        IN  /\ carrier_pick # "" =>
                /\ ~result.merged_df.none /\ HasColumn(result.merged_df, "carrier")
                /\ InList(carrier_pick, CarrierOptions(result.merged_df))
                /\ session.present /\ carrier_pick # session.carrier
            /\ date_pick # <<>> =>
                /\ st.exception = "" /\ "dates" \in st.entered
                /\ \A k \in 1..Len(date_pick) :
                       MinDay(result.merged_df) <= date_pick[k]
                       /\ date_pick[k] <= MaxDay(result.merged_df)
            /\ loaded' = [called |-> TRUE, value |-> result]
            /\ cache' = IF st.rerun \/ result.escaped # "" THEN NoCache
                        ELSE [valid |-> TRUE, value |-> result]
            /\ session' = st.fs
            /\ page' = PageOf(st)
            /\ rerun_pending' = st.rerun
            /\ UNCHANGED files

\* The tuples a user can choose in the date input: a start day alone, or a
\* start and an end.
DayRange == 1..3
DatePicks ==
    {<<a>> : a \in DayRange} \cup {<<a, b>> \in DayRange \X DayRange : a <= b}

\* The page is opened, or rerun without touching a widget.
Rerun == ~rerun_pending /\ Run("", <<>>, FALSE)
\* The user chooses another carrier in the selectbox.
PickCarrier ==
    /\ ~rerun_pending /\ page.status # "none"
    /\ \E c \in {"All"} \cup {CarrierOrder[k] : k \in 1..Len(CarrierOrder)} :
           Run(c, <<>>, FALSE)
\* The user chooses dates in the date input.
PickDates ==
    /\ ~rerun_pending /\ page.status # "none"
    /\ \E dr \in DatePicks : Run("", dr, FALSE)
\* The user clicks "Clear Cache & Refresh".
ClickClear ==
    /\ ~rerun_pending /\ page.status \in {"done"}
    /\ Run("", <<>>, TRUE)
\* The run that st.rerun() starts.
AutoRerun == rerun_pending /\ Run("", <<>>, FALSE)
\* The cache entry is older than ttl=600 seconds.
CacheExpires ==
    /\ cache.valid
    /\ cache' = NoCache
    /\ UNCHANGED << files, loaded, session, page, rerun_pending >>
\* The CSV files are replaced on disk.
FilesChange ==
    /\ \E fs \in SessionInputs : fs # files /\ files' = fs
    /\ UNCHANGED << cache, loaded, session, page, rerun_pending >>

Init ==
    /\ files \in SessionInputs
    /\ cache = NoCache
    /\ loaded = NotLoaded
    /\ session = NewSession
    /\ page = NoPage
    /\ rerun_pending = FALSE
Next ==
    \/ Rerun
    \/ PickCarrier
    \/ PickDates
    \/ ClickClear
    \/ AutoRerun
    \/ CacheExpires
    \/ FilesChange
Spec == Init /\ [][Next]_vars

\* A call of load_and_process_data alone, on files that vary its inputs.
CallLoad ==
    /\ ~loaded.called
    /\ \E body \in RunsToScan(files) : \E d \in ScoreDraws(body) :
         LET result == Finish(body, d)
         IN  /\ loaded' = [called |-> TRUE, value |-> result]
             /\ cache' = IF result.escaped # "" THEN cache
                         ELSE [valid |-> TRUE, value |-> result]
    /\ UNCHANGED << files, session, page, rerun_pending >>
InitPipeline ==
    /\ files \in PipelineInputs
    /\ cache = NoCache
    /\ loaded = NotLoaded
    /\ session = NewSession
    /\ page = NoPage
    /\ rerun_pending = FALSE
NextPipeline == CallLoad
SpecPipeline == InitPipeline /\ [][NextPipeline]_vars

(***************************************************************************)
(* Properties.                                                             *)
(***************************************************************************)
Result == loaded.value
\* The latest call returned the six tables.
Succeeded == loaded.called /\ Result.escaped = "" /\ ~Result.flight_df.none
Merged == Result.merged_df
MergedCell(i, name) == At(Merged, Merged.rows[i], name)
MergedRows == 1..Len(Merged.rows)
FlightRows == 1..Len(Result.flight_df.rows)
FlightCell(j, name) == At(Result.flight_df, Result.flight_df.rows[j], name)

\* The delay in minutes that the timestamp texts of a flight row denote.
Parses(c) == c.tag = "tstext"
Instant(c) == c.n - c.off
RawDelay(actual, scheduled) ==
    IF Parses(actual) /\ Parses(scheduled) THEN Instant(actual) - Instant(scheduled) ELSE 0
ParsedDelay(actual, scheduled) ==
    IF actual.tag = "datetime" /\ scheduled.tag = "datetime" THEN actual.n - scheduled.n ELSE 0
DelaysOfMerged(i) ==
    << MergedCell(i, "departure_delay_mins").n, MergedCell(i, "arrival_delay_mins").n >>
DelaysOfFlight(j) ==
    << RawDelay(FlightCell(j, "actual_departure_datetime_local"),
                FlightCell(j, "scheduled_departure_datetime_local")),
       RawDelay(FlightCell(j, "actual_arrival_datetime_local"),
                FlightCell(j, "scheduled_arrival_datetime_local")) >>

\* C4: after a successful run every row of the merged table has numeric
\* (non-null) departure and arrival delays; each is actual minus scheduled
\* in signed minutes when both timestamps parsed and 0 otherwise, and the
\* rows carry exactly the delays that the timestamp texts of the flights
\* with their key denote.
C4_DelaysDefined ==
    Succeeded =>
        /\ \A i \in MergedRows :
             /\ MergedCell(i, "departure_delay_mins").tag = "num"
             /\ MergedCell(i, "arrival_delay_mins").tag = "num"
             /\ DelaysOfMerged(i) =
                  << ParsedDelay(MergedCell(i, "actual_departure_datetime_local"),
                                 MergedCell(i, "scheduled_departure_datetime_local")),
                     ParsedDelay(MergedCell(i, "actual_arrival_datetime_local"),
                                 MergedCell(i, "scheduled_arrival_datetime_local")) >>
             /\ \E j \in FlightRows :
                  /\ KeyOf(Result.flight_df, Result.flight_df.rows[j]) = KeyOf(Merged, Merged.rows[i])
                  /\ DelaysOfFlight(j) = DelaysOfMerged(i)
        /\ \A j \in FlightRows : \E i \in MergedRows :
             /\ KeyOf(Result.flight_df, Result.flight_df.rows[j]) = KeyOf(Merged, Merged.rows[i])
             /\ DelaysOfFlight(j) = DelaysOfMerged(i)
\* A departure 23 minutes late beside one whose actual time is missing.
C4_Witness ==
    /\ Succeeded
    /\ \E i, j \in MergedRows :
         /\ MergedCell(i, "scheduled_departure_datetime_local") = Timestamp(100)
         /\ MergedCell(i, "actual_departure_datetime_local") = Timestamp(123)
         /\ MergedCell(i, "departure_delay_mins") = Num(23)
         /\ MergedCell(j, "actual_departure_datetime_local") = NaT
         /\ MergedCell(j, "departure_delay_mins") = Num(0)

\* The column names of the inputs that contain "difficulty" or "score",
\* whatever their case.
DifficultyNames ==
    {"score_v1", "difficulty_raw", "Difficulty_Level", "PNR_SCORE", "flight_difficulty_score"}
\* The columns of the merged table when line 70 scans them.
ScannedColumns ==
    merge(merge(Result.flight_df, Result.pnr_df).df, Result.bag_df).df.columns
        \o << "departure_delay_mins", "arrival_delay_mins" >>
FirstDifficulty(cols) ==
    CHOOSE k \in 1..Len(cols) :
        cols[k] \in DifficultyNames /\ \A j \in 1..(k - 1) : cols[j] \notin DifficultyNames

\* C5: when a column name contains "difficulty" or "score", the first such
\* column in column order, and no other, is renamed to
\* flight_difficulty_score and nothing is generated; when none does, a
\* flight_difficulty_score column of integers v, 1 <= v < 100, is added.
\* Either way the column is present, from exactly one of the two paths.
C5_DifficultyResolved ==
    Succeeded =>
        LET before == ScannedColumns
            after == Merged.columns
        IN  /\ HasColumn(Merged, "flight_difficulty_score")
            /\ IF \E k \in 1..Len(before) : before[k] \in DifficultyNames
               THEN /\ Len(after) = Len(before)
                    /\ \A k \in 1..Len(before) :
                         after[k] = IF k = FirstDifficulty(before)
                                    THEN "flight_difficulty_score" ELSE before[k]
                    /\ Len(Result.messages) = 1
                    /\ Result.messages[1].level = "info"
                    /\ Result.messages[1].about = before[FirstDifficulty(before)]
               ELSE /\ after = before \o << "flight_difficulty_score" >>
                    /\ \A i \in MergedRows :
                         /\ MergedCell(i, "flight_difficulty_score").tag = "num"
                         /\ 1 <= MergedCell(i, "flight_difficulty_score").n
                         /\ MergedCell(i, "flight_difficulty_score").n < 100
                    /\ Len(Result.messages) = 1
                    /\ Result.messages[1].level = "warning"
\* Two matching columns, score_v1 before difficulty_raw: the first is renamed.
C5_Witness ==
    /\ Succeeded
    /\ \E k \in 1..Len(ScannedColumns) :
         /\ ScannedColumns[k] = "score_v1"
         /\ ScannedColumns[k + 1] = "difficulty_raw"
         /\ Merged.columns[k] = "flight_difficulty_score"
         /\ Merged.columns[k + 1] = "difficulty_raw"

\* A flight row whose key no PNR row and no bag row carries.
KeyOfFlight(j) == KeyOf(Result.flight_df, Result.flight_df.rows[j])
Unmatched(j) ==
    /\ \A p \in 1..Len(Result.pnr_df.rows) :
         KeyOf(Result.pnr_df, Result.pnr_df.rows[p]) # KeyOfFlight(j)
    /\ \A b \in 1..Len(Result.bag_df.rows) :
         KeyOf(Result.bag_df, Result.bag_df.rows[b]) # KeyOfFlight(j)
\* The positions of the PNR and bag columns in the merged table.
PnrBagPositions ==
    (Len(Result.flight_df.columns) + 1) ..
    (Len(Result.flight_df.columns)
       + Len(NonKeyPositions(Result.pnr_df)) + Len(NonKeyPositions(Result.bag_df)))

\* C6: a flight record whose key matches no PNR row and no bag row survives
\* exactly once in the merged table (equal records of the flight table
\* count as one record), with NaN in every PNR and bag column.
C6_UnmatchedFlightSurvivesOnce ==
    Succeeded =>
        \A j \in FlightRows :
            Unmatched(j) =>
                LET hits == {i \in MergedRows : KeyOf(Merged, Merged.rows[i]) = KeyOfFlight(j)}
                    records == {Result.flight_df.rows[k] :
                                  k \in {k \in FlightRows : KeyOfFlight(k) = KeyOfFlight(j)}}
                IN  /\ Cardinality(hits) = Cardinality(records)
                    /\ \A i \in hits : \A p \in PnrBagPositions : Merged.rows[i][p] = NaN
\* An unmatched flight recorded twice, beside non-empty PNR and bag tables.
C6_Witness ==
    /\ Succeeded
    /\ Len(Result.pnr_df.rows) > 0 /\ Len(Result.bag_df.rows) > 0
    /\ \E j, k \in FlightRows :
         /\ j # k /\ Unmatched(j)
         /\ Result.flight_df.rows[j] = Result.flight_df.rows[k]
         /\ Cardinality({i \in MergedRows : KeyOf(Merged, Merged.rows[i]) = KeyOfFlight(j)}) = 1

\* C7: the merged table a successful run returns holds no two rows that
\* are equal in every column.
C7_NoDuplicateRows ==
    Succeeded =>
        \A i, j \in MergedRows : i # j => Merged.rows[i] # Merged.rows[j]

\* An input on which the pipeline cannot complete: a file is absent or
\* malformed, a join key is absent from a joined table, or a timestamp
\* column is absent from the flight table.
JoinedFiles == {FileNames[1], FileNames[2], FileNames[3]}
FatalInput ==
    \/ \E name \in FileSet : files[name].status # "ok"
    \/ \E name \in JoinedFiles : \E k \in 1..Len(JoinKeys) :
           ~HasColumn(files[name].table, JoinKeys[k])
    \/ \E k \in 1..Len(datetime_cols) : ~HasColumn(files[FileNames[1]].table, datetime_cols[k])

\* C8: no exception leaves load_and_process_data; on an input it cannot
\* complete it shows one error message and returns None for the five
\* source tables and an empty merged table, whatever was loaded before.
C8_FailureIsUniform ==
    loaded.called =>
        /\ Result.escaped = ""
        /\ FatalInput =>
             /\ Result.flight_df = None /\ Result.pnr_df = None /\ Result.bag_df = None
             /\ Result.remark_df = None /\ Result.airport_df = None
             /\ Result.merged_df = EmptyDataFrame
             /\ Len(Result.messages) = 1
             /\ Result.messages[1].level = "error"
\* The flight and PNR files were read before the bag file is found absent,
\* or all five were read before a join key is found absent.
C8_Witness ==
    /\ loaded.called
    /\ files[FileNames[1]].status = "ok" /\ files[FileNames[2]].status = "ok"
    /\ files[FileNames[3]].status = "missing"
    /\ Result.flight_df = None /\ Result.merged_df = EmptyDataFrame

\* A notice about downsampling: a message other than those of the
\* difficulty-score step.
Downsampled ==
    \E name \in JoinedFiles : Len(files[name].table.rows) > SampleLimit
IsDownsampleNotice(m) ==
    /\ m.level \in {"info", "warning"}
    /\ m.text \notin {MsgSynthetic.text, MsgDetected("").text}

\* C9: a successful run that downsamples a table shows a notice of it, and
\* one that finds no difficulty column shows the warning of synthetic values.
C9_DeviationsAreNoticed ==
    Succeeded =>
        /\ Downsampled =>
             \E k \in 1..Len(Result.messages) : IsDownsampleNotice(Result.messages[k])
        /\ (\A k \in 1..Len(ScannedColumns) : ScannedColumns[k] \notin DifficultyNames) =>
             \E k \in 1..Len(Result.messages) : Result.messages[k] = MsgSynthetic

\* The latest run of the script got a failure result from the pipeline.
PipelineFailed == loaded.called /\ Result.escaped = "" /\ Result.flight_df.none
NoDataIndicators ==
    {"Total Flights: N/A", "No data available to display KPIs.",
     "No data available to display visualizations."}

\* C1: a run of the script on a failed pipeline result shows the no-data
\* indicators, enters none of the dependent computations and does not crash.
C1_FailureShowsNoData ==
    (page.status \in {"done", "exception"} /\ PipelineFailed) =>
        /\ page.status = "done"
        /\ page.entered = {}
        /\ NoDataIndicators \subseteq page.shown

PageRows == 1..Len(page.df.rows)
PageCarrier(i) == At(page.df, page.df.rows[i], "carrier")
PageDay(i) == DayOf(page.df, page.df.rows[i])
InPage(row) == \E i \in PageRows : page.df.rows[i] = row
InSelectedDates(row) ==
    Len(page.date_range) = 2 =>
        /\ page.date_range[1] <= DayOf(Merged, row)
        /\ DayOf(Merged, row) <= page.date_range[2]

\* C2: on every completed render the table behind the KPIs and charts holds
\* only rows of the selected carrier when one is selected, and loses no row
\* to the carrier when "All" is selected.
C2_CarrierFilterApplied ==
    (page.status = "done" /\ page.selected_carrier # "") =>
        IF page.selected_carrier # "All"
        THEN \A i \in PageRows : PageCarrier(i) = Text(page.selected_carrier)
        ELSE \A m \in MergedRows :
                 InSelectedDates(Merged.rows[m]) => InPage(Merged.rows[m])

\* C3: on every completed render with a start and an end day selected, the
\* table behind the KPIs and charts holds exactly the rows of the selected
\* carrier whose day d satisfies start <= d <= end.
C3_DateFilterApplied ==
    (page.status = "done" /\ Len(page.date_range) = 2) =>
        /\ \A i \in PageRows :
             page.date_range[1] <= PageDay(i) /\ PageDay(i) <= page.date_range[2]
        /\ \A m \in MergedRows :
             ( /\ InSelectedDates(Merged.rows[m])
               /\ page.selected_carrier # "All" =>
                    At(Merged, Merged.rows[m], "carrier") = Text(page.selected_carrier) )
             => InPage(Merged.rows[m])

\* C10: whenever a run builds the carrier selectbox, the stored carrier is
\* one of its options.
C10_StoredCarrierIsAnOption ==
    (page.status # "none" /\ "carrier" \in page.entered) =>
        InList(session.carrier, CarrierOptions(Merged))


====
